---- MODULE Spec2Model ----
(***************************************************************************)
(* A model of the dataset loaders of load_data.py: the paired shuffles,    *)
(* one_hot, create_windows and the two loaders load_data_sleep and         *)
(* load_data_home.  One call of one function is a run of the state         *)
(* machine: fn and args are the call, pc its position, loc its local       *)
(* variables, ret what it returned or raised.  A loader is invoked twice   *)
(* on the same arguments (call = 1, 2) so that its two results can be      *)
(* compared; entropy is what an unseeded generator would draw from, and    *)
(* it differs from one invocation to the next.  The model assembly of     *)
(* model.py (SpecModel), the input hook (SpecHook) and the MIMIC-III       *)
(* loaders (SpecClinical) follow, each with its own specification over the *)
(* same variables.                                                         *)
(*                                                                         *)
(* Arrays are sequences.  A feature row is not a vector of floats but the  *)
(* place in the input it was read from, so that every property about       *)
(* "which example, paired with which label" is decided by the code's       *)
(* indexing and not by the values.                                         *)
(***************************************************************************)
EXTENDS Integers, Sequences, FiniteSets, TLC

VARIABLES fn, args, pc, loc, ret, call, entropy, first

vars == <<fn, args, pc, loc, ret, call, entropy, first>>

(***************************************************************************)
(* Bounds of the model.                                                    *)
(***************************************************************************)
MaxFiles == 3        \* *.npy files in the sleep directory
MaxSamples == 3      \* stage labels in all sleep files together
MaxSeed == 1         \* seeds 0..MaxSeed
MaxEntropy == 1      \* what an unseeded generator could start from
MaxRaw == 4          \* raw examples in one smart-home file
MaxWindow == 3       \* window_size 1..MaxWindow
MaxLen == 3          \* length of the sequences handed to the shuffles
MaxExamples == 2     \* examples in the y handed to one_hot
MaxClasses == 3      \* num_classes 2..MaxClasses
MaxBatchSize == 2    \* batch_size of the domain labels, 0..MaxBatchSize

(***************************************************************************)
(* Program constants.                                                      *)
(***************************************************************************)
NumStages == 6       \* stage_labels < 6
WindowLen == 750     \* samples per stage label

None == -1           \* Python's None, for a seed

\* The stage codes a file may hold: the last sleep stage (5), "no signal" (6)
\* and a code below the class range.
StageValues == {-1, 5, 6}

\* Fractions <<numerator, denominator>> in (0, 1].
Percents == {<<1, 3>>, <<7, 10>>, <<1, 1>>}

Seeds == 0..MaxSeed

(***************************************************************************)
(* Returned and raised.                                                    *)
(***************************************************************************)
NoRet == [status |-> "none"]
Returned(v) == [status |-> "returned", value |-> v]
Raised(e) == [status |-> "raised", error |-> e]

(***************************************************************************)
(* Sequence helpers: Python's slices and NumPy's indexing.                 *)
(***************************************************************************)
Min(a, b) == IF a < b THEN a ELSE b
Max(a, b) == IF a > b THEN a ELSE b

\* s[:k] and s[k:] for 0 <= k (a slice clamps at the end of s).
Take(s, k) == SubSeq(s, 1, Min(k, Len(s)))
Drop(s, k) == SubSeq(s, Min(k, Len(s)) + 1, Len(s))

\* s[i:j] with 0-based i, j >= 0.
Slice(s, i, j) == SubSeq(s, Min(i, Len(s)) + 1, Min(j, Len(s)))

\* arr[mask] for a boolean mask of the same length: the rows whose mask is True.
BoolIndex(arr, mask) ==
    LET idx == SelectSeq([i \in 1..Len(arr) |-> i], LAMBDA i : mask[i])
    IN  [j \in 1..Len(idx) |-> arr[idx[j]]]

\* arr[p] for an index array p (0-based indices).
FancyIndex(arr, p) == [j \in 1..Len(p) |-> arr[p[j] + 1]]

\* np.vstack / np.hstack of a list of arrays along their first axis.
RECURSIVE Stack(_)
Stack(arrs) == IF arrs = <<>> THEN <<>> ELSE Head(arrs) \o Stack(Tail(arrs))

\* math.ceil(p * n) for a fraction p = <<num, den>> and an integer n >= 0.
MathFloor(p, n) == (p[1] * n) \div p[2]
MathCeil(p, n) == (p[1] * n + p[2] - 1) \div p[2]

(***************************************************************************)
(* The generators.  random.Random(seed) and np.random.RandomState(seed)    *)
(* are library code: a generator is modelled by a small congruential       *)
(* generator whose state is set from the seed, or from entropy when the    *)
(* seed is None.  The shuffle itself is the library's Fisher-Yates loop.   *)
(***************************************************************************)
RandomRandom(seed) ==
    IF seed = None THEN (entropy * 29 + 5) % 97 ELSE (seed * 31 + 11) % 97

RandomStateUnseeded(seed) == (entropy * 37 + 3) % 97
RandomState(seed) ==
    IF seed = None THEN (entropy * 37 + 3) % 97 ELSE (seed * 41 + 17) % 97

NextState(s) == (s * 13 + 7) % 97
RandBelow(s, n) == s % n

\* for i in reversed(range(1, len(x))): j = randbelow(i + 1); swap x[i], x[j]
\* (i here is the 1-based position i + 1).
RECURSIVE FisherYates(_, _, _)
FisherYates(x, i, s) ==
    IF i < 2 THEN x
    ELSE LET j == RandBelow(s, i) + 1
         IN  FisherYates([x EXCEPT ![i] = x[j], ![j] = x[i]], i - 1, NextState(s))

Zip(a, b) == [i \in 1..Len(a) |-> <<a[i], b[i]>>]

\* zip(*combined): one tuple per component of the pairs, so none at all when
\* combined is empty.
Unzip(combined) ==
    IF combined = <<>> THEN <<>>
    ELSE << [i \in 1..Len(combined) |-> combined[i][1]],
            [i \in 1..Len(combined) |-> combined[i][2]] >>

ShuffleTogetherUnpaired(a, b, seed) ==
    IF a = <<>> THEN <<>>
    ELSE << FisherYates(a, Len(a), RandomRandom(seed)),
            FisherYates(b, Len(b), NextState(RandomRandom(seed))) >>
shuffle_together(a, b, seed) ==
    Unzip(FisherYates(Zip(a, b), Len(a), RandomRandom(seed)))

\* rand.permutation(n): a shuffle of arange(n).
Permutation(n, s) == FisherYates([i \in 1..n |-> i - 1], n, s)

ShuffleTogetherNpUnpaired(a, b, seed) ==
    << FancyIndex(a, Permutation(Len(a), RandomState(seed))),
       FancyIndex(b, Permutation(Len(b), NextState(RandomState(seed)))) >>
shuffle_together_np(a, b, seed) ==
    LET p == Permutation(Len(a), RandomState(seed))
    IN  <<FancyIndex(a, p), FancyIndex(b, p)>>

(***************************************************************************)
(* load_data_sleep.  A file is [subject, stage, rf_cols]: the subject, the *)
(* stage label of each 30-second window and the number of columns of the   *)
(* complex (5, rf_cols) array rf.            A feature row of x is          *)
(* [file, start, stride]: row k of transpose(reshape(rf, (10, -1, n)))     *)
(* holds the columns k, k + n, k + 2n, ... of rf.                          *)
(***************************************************************************)
NoError(stage_labels) ==
    [k \in 1..Len(stage_labels) |-> stage_labels[k] < NumStages]

\* x = np.transpose(np.reshape(rf, (rf.shape[0], -1, n))) of file number i.
ReshapeTranspose(i, n) == [k \in 1..n |-> [file |-> i, start |-> k - 1, stride |-> n]]

\* The dictionaries subject_x, subject_y with their insertion order.
EmptyDicts == [order |-> <<>>, subject_x |-> <<>>, subject_y |-> <<>>]

GroupBySubject(acc, subject, x, stage_labels) ==
    IF subject \notin DOMAIN acc.subject_x
    THEN [order |-> Append(acc.order, subject),
          subject_x |-> (subject :> x) @@ acc.subject_x,
          subject_y |-> (subject :> stage_labels) @@ acc.subject_y]
    ELSE [acc EXCEPT !.subject_x[subject] = @ \o x,
                     !.subject_y[subject] = @ \o stage_labels]

\* subject = d['subject']: the key a file's data is grouped under.
SubjectKeyPerFile(d, i) == i
SubjectKey(d, i) == d.subject

\* The loop without the assertion of line 164: a file of the wrong shape is
\* passed over and the other files are kept.
RECURSIVE ReadFilesUnchecked(_, _, _)
ReadFilesUnchecked(files, i, acc) ==
    IF i > Len(files) THEN [raised |-> FALSE, at |-> 0, dicts |-> acc]
    ELSE LET d == files[i]
             n == Len(d.stage)
             no_error == NoError(d.stage)
             x == BoolIndex(ReshapeTranspose(i, n), no_error)
             stage_labels == BoolIndex(d.stage, no_error)
         IN  IF n * WindowLen # d.rf_cols
             THEN ReadFilesUnchecked(files, i + 1, acc)
             ELSE ReadFilesUnchecked(files, i + 1,
                      GroupBySubject(acc, d.subject, x, stage_labels))

\* The loop over the files from file i on: the dictionaries, or the file at
\* which an assertion failed.
RECURSIVE ReadFiles(_, _, _)
ReadFiles(files, i, acc) ==
    IF i > Len(files) THEN [raised |-> FALSE, at |-> 0, dicts |-> acc]
    ELSE LET d == files[i]
             n == Len(d.stage)
             no_error == NoError(d.stage)
             x == BoolIndex(ReshapeTranspose(i, n), no_error)
             stage_labels == BoolIndex(d.stage, no_error)
         IN  IF n * WindowLen # d.rf_cols
             THEN [raised |-> TRUE, at |-> i, dicts |-> acc]
             ELSE ReadFiles(files, i + 1, GroupBySubject(acc, SubjectKey(d, i), x, stage_labels))

\* list(subject_x.values())
Values(order, dict) == [i \in 1..Len(order) |-> dict[order[i]]]

DomainEndFloor(domain_a_percent, n) == MathFloor(domain_a_percent, n)
DomainEnd(domain_a_percent, n) == MathCeil(domain_a_percent, n)

TrainingEndFloor(train_percent, n) == MathFloor(train_percent, n)
TrainingEnd(train_percent, n) == MathCeil(train_percent, n)

\* The eight returned arrays.
Split(a_x, a_y, b_x, b_y, training_end_a, training_end_b) ==
    [train_data_a |-> Take(a_x, training_end_a),
     train_labels_a |-> Take(a_y, training_end_a),
     test_data_a |-> Drop(a_x, training_end_a),
     test_labels_a |-> Drop(a_y, training_end_a),
     train_data_b |-> Take(b_x, training_end_b),
     train_labels_b |-> Take(b_y, training_end_b),
     test_data_b |-> Drop(b_x, training_end_b),
     test_labels_b |-> Drop(b_y, training_end_b)]

SleepReadFiles ==
    /\ fn = "load_data_sleep" /\ pc = "read"
    /\ LET r == ReadFiles(args.files, 1, EmptyDicts)
       IN  IF r.raised
           THEN /\ pc' = "failed"
                /\ ret' = Raised([type |-> "AssertionError", file |-> r.at])
                /\ loc' = loc
           ELSE /\ pc' = "split_subjects"
                /\ ret' = ret
                /\ loc' = r.dicts
    /\ UNCHANGED <<fn, args, call, entropy, first>>

\* Lines 195-207: shuffle the subjects and cut the list into the two domains.
SleepSplitSubjects ==
    /\ fn = "load_data_sleep" /\ pc = "split_subjects"
    /\ LET xs0 == Values(loc.order, loc.subject_x)
           ys0 == Values(loc.order, loc.subject_y)
           sh == shuffle_together(xs0, ys0, args.seed)
       IN  IF Len(sh) # 2
           THEN /\ pc' = "failed"
                /\ ret' = Raised([type |-> "ValueError", file |-> 0])
                /\ loc' = loc
           ELSE LET xs == sh[1]
                    ys == sh[2]
                    domain_end == DomainEnd(args.domain_a_percent, Len(xs))
                IN  /\ pc' = "concat"
                    /\ ret' = ret
                    /\ loc' = [xs |-> xs, ys |-> ys,
                               domain_a_x |-> Take(xs, domain_end),
                               domain_b_x |-> Drop(xs, domain_end),
                               domain_a_y |-> Take(ys, domain_end),
                               domain_b_y |-> Drop(ys, domain_end)] @@ loc
    /\ UNCHANGED <<fn, args, call, entropy, first>>

\* Lines 209-217: concatenate each domain's subjects and shuffle its examples.
\* np.vstack and np.hstack raise on an empty list.
SleepConcatenate ==
    /\ fn = "load_data_sleep" /\ pc = "concat"
    /\ IF loc.domain_a_x = <<>> \/ loc.domain_b_x = <<>>
       THEN /\ pc' = "failed"
            /\ ret' = Raised([type |-> "ValueError", file |-> 0])
            /\ loc' = loc
       ELSE LET a == shuffle_together_np(Stack(loc.domain_a_x), Stack(loc.domain_a_y),
                                         args.seed + 1)
                b == shuffle_together_np(Stack(loc.domain_b_x), Stack(loc.domain_b_y),
                                         args.seed + 2)
            IN  /\ pc' = "split"
                /\ ret' = ret
                /\ loc' = [a_x |-> a[1], a_y |-> a[2], b_x |-> b[1], b_y |-> b[2]] @@ loc
    /\ UNCHANGED <<fn, args, call, entropy, first>>

\* Lines 219-236: cut each domain into its training and testing sets.
SleepSplitTrainTest ==
    /\ fn = "load_data_sleep" /\ pc = "split"
    /\ pc' = "done"
    /\ ret' = Returned(Split(loc.a_x, loc.a_y, loc.b_x, loc.b_y,
                             TrainingEnd(args.train_percent, Len(loc.a_y)),
                             TrainingEnd(args.train_percent, Len(loc.b_y))))
    /\ UNCHANGED <<fn, args, loc, call, entropy, first>>

(***************************************************************************)
(* create_windows and load_data_home.  A raw example is [file, row]; after *)
(* np.expand_dims(x, axis=1) an example is the one-step sequence <<row>>,  *)
(* and a window is the sequence of the rows concatenated along that axis.  *)
(***************************************************************************)
\* range(len(y) - window_size)
WindowCount(n, window_size) == Max(n - window_size, 0)

\* y[i + window_size - 1] for the 0-based window i.
WindowLabelFirst(y, i, window_size) == y[i + 1]
WindowLabel(y, i, window_size) == y[i + window_size]

\* np.concatenate(x[i:i+window_size], axis=0) for the 0-based window i.
WindowRows(x, i, window_size) == Stack(Slice(x, i, i + window_size))

create_windows(x, y, window_size) ==
    LET count == WindowCount(Len(y), window_size)
        windows_x == [i \in 1..count |-> WindowRows(x, i - 1, window_size)]
        windows_y == [i \in 1..count |-> WindowLabel(y, i - 1, window_size)]
    IN  IF count = 0
        THEN Raised([type |-> "ValueError", file |-> 0])   \* np.vstack([])
        ELSE Returned(<<windows_x, windows_y>>)

\* np.expand_dims(x, axis=1)
ExpandDims(x) == [k \in 1..Len(x) |-> <<x[k]>>]

\* The loop followed by a test of a_x alone: b_x counts as found.
RECURSIVE ScanFilesTestingA(_, _, _, _, _)
ScanFilesTestingA(files, i, A, B, acc) ==
    IF i > Len(files) THEN [acc EXCEPT !.b_found = TRUE]
    ELSE LET f == files[i]
         IN  ScanFilesTestingA(files, i + 1, A, B,
                 IF f.stem = A
                 THEN [acc EXCEPT !.a_found = TRUE, !.a_x = f.features, !.a_y = f.labels]
                 ELSE IF f.stem = B
                 THEN [acc EXCEPT !.b_found = TRUE, !.b_x = f.features, !.b_y = f.labels]
                 ELSE acc)

\* The loop over the *.hdf5 files: what a_x, a_y, b_x, b_y end as (None when
\* no file had that stem).
RECURSIVE ScanFiles(_, _, _, _, _)
ScanFiles(files, i, A, B, acc) ==
    IF i > Len(files) THEN acc
    ELSE LET f == files[i]
         IN  ScanFiles(files, i + 1, A, B,
                 IF f.stem = A
                 THEN [acc EXCEPT !.a_found = TRUE, !.a_x = f.features, !.a_y = f.labels]
                 ELSE IF f.stem = B
                 THEN [acc EXCEPT !.b_found = TRUE, !.b_x = f.features, !.b_y = f.labels]
                 ELSE acc)

NothingFound == [a_found |-> FALSE, a_x |-> <<>>, a_y |-> <<>>,
                 b_found |-> FALSE, b_x |-> <<>>, b_y |-> <<>>]

\* Lines 611-622.
HomeScan ==
    /\ fn = "load_data_home" /\ pc = "scan"
    /\ LET r == ScanFiles(args.files, 1, args.A, args.B, NothingFound)
       IN  IF ~(r.a_found /\ r.b_found)
           THEN /\ pc' = "failed"
                /\ ret' = Raised([type |-> "AssertionError", file |-> 0])
                /\ loc' = loc
           ELSE /\ pc' = "windows"
                /\ ret' = ret
                /\ loc' = [a_x |-> r.a_x, a_y |-> r.a_y, b_x |-> r.b_x, b_y |-> r.b_y]
    /\ UNCHANGED <<fn, args, call, entropy, first>>

\* Lines 624-636.
HomeWindows ==
    /\ fn = "load_data_home" /\ pc = "windows"
    /\ LET a_x == ExpandDims(loc.a_x)
           b_x == ExpandDims(loc.b_x)
           wa == create_windows(a_x, loc.a_y, args.window_size)
           wb == create_windows(b_x, loc.b_y, args.window_size)
       IN  IF args.window_size = 1
           THEN /\ pc' = "shuffle"
                /\ ret' = ret
                /\ loc' = [a_x |-> a_x, a_y |-> loc.a_y, b_x |-> b_x, b_y |-> loc.b_y]
           ELSE IF wa.status = "raised" \/ wb.status = "raised"
           THEN /\ pc' = "failed"
                /\ ret' = IF wa.status = "raised" THEN wa ELSE wb
                /\ loc' = loc
           ELSE /\ pc' = "shuffle"
                /\ ret' = ret
                /\ loc' = [a_x |-> wa.value[1], a_y |-> wa.value[2],
                           b_x |-> wb.value[1], b_y |-> wb.value[2]]
    /\ UNCHANGED <<fn, args, call, entropy, first>>

\* Lines 638-640.
HomeShuffle ==
    /\ fn = "load_data_home" /\ pc = "shuffle"
    /\ LET a == shuffle_together_np(loc.a_x, loc.a_y, args.seed)
           b == shuffle_together_np(loc.b_x, loc.b_y, args.seed + 1)
       IN  loc' = [a_x |-> a[1], a_y |-> a[2], b_x |-> b[1], b_y |-> b[2]]
    /\ pc' = "split"
    /\ UNCHANGED <<fn, args, ret, call, entropy, first>>

\* Lines 642-659.
HomeSplitTrainTest ==
    /\ fn = "load_data_home" /\ pc = "split"
    /\ pc' = "done"
    /\ ret' = Returned(Split(loc.a_x, loc.a_y, loc.b_x, loc.b_y,
                             TrainingEnd(args.train_percent, Len(loc.a_y)),
                             TrainingEnd(args.train_percent, Len(loc.b_y))))
    /\ UNCHANGED <<fn, args, loc, call, entropy, first>>

(***************************************************************************)
(* one_hot.  An array is [shape, data, dtype]: its dimensions, its         *)
(* elements in row-major order and its element type.                       *)
(***************************************************************************)
\* np.squeeze(y).shape: the dimensions that are not 1.
SqueezedShape(shape) == SelectSeq(shape, LAMBDA d : d # 1)

\* len(squeezed.shape) < 2
IsIndexArrayAlways(squeezed_shape) == TRUE
IsIndexArray(squeezed_shape) == Len(squeezed_shape) < 2

\* squeezed.astype(np.int32) - 1 when index_one, squeezed.astype(np.int32) else.
ClassIndex(label, index_one) == IF index_one THEN label - 1 ELSE label

\* Row i of np.eye(num_classes): a negative i counts from the end.
EyeRow(num_classes, i) ==
    LET r == IF i < 0 THEN i + num_classes ELSE i
    IN  [c \in 1..num_classes |-> IF c - 1 = r THEN 1 ELSE 0]

\* np.eye(num_classes, dtype=np.float32)[idx] for an integer array idx of any
\* shape: one row of the identity per element of idx.
EyeIndex(num_classes, idx_shape, idx_data) ==
    [shape |-> idx_shape \o <<num_classes>>,
     data |-> Stack([j \in 1..Len(idx_data) |-> EyeRow(num_classes, idx_data[j])]),
     dtype |-> "float32"]

\* x.astype(np.float32), then a third axis when x has fewer than three.
OneHotX(x) ==
    [shape |-> IF Len(x.shape) < 3 THEN x.shape \o <<1>> ELSE x.shape,
     dtype |-> "float32"]

one_hot(x, y, num_classes, index_one) ==
    LET squeezed_shape == SqueezedShape(y.shape)
        idx == [j \in 1..Len(y.data) |-> ClassIndex(y.data[j], index_one)]
    IN  IF IsIndexArray(squeezed_shape)
        THEN IF \E j \in 1..Len(idx) : idx[j] < -num_classes \/ idx[j] >= num_classes
             THEN Raised([type |-> "IndexError", file |-> 0])
             ELSE Returned(<<OneHotX(x), EyeIndex(num_classes, squeezed_shape, idx)>>)
        ELSE IF squeezed_shape[2] # num_classes
             THEN Raised([type |-> "AssertionError", file |-> 0])
             ELSE Returned(<<OneHotX(x), [y EXCEPT !.dtype = "float32"]>>)

(***************************************************************************)
(* The inputs.                                                             *)
(***************************************************************************)
SeqsUpTo(S, lo, hi) == UNION {[1..n -> S] : n \in lo..hi}

\* The directories of k more sleep files holding at most budget stage labels,
\* when the subjects 1..seen have appeared: subjects are numbered in the order
\* of their first file, and every file is well formed.
RECURSIVE SleepDirs(_, _, _)
SleepDirs(k, budget, seen) ==
    IF k = 0 THEN {<<>>}
    ELSE UNION {
        { <<[subject |-> s, stage |-> st, rf_cols |-> WindowLen * Len(st)]>> \o rest :
            rest \in SleepDirs(k - 1, budget - Len(st), Max(seen, s)) } :
        s \in 1..(seen + 1), st \in SeqsUpTo(StageValues, 1, budget - (k - 1)) }

\* The same directories with at most one file whose rf has a wrong column count.
Malformed(files) ==
    { [files EXCEPT ![i].rf_cols = @ + 1] : i \in 1..Len(files) }

SleepArgs ==
    LET wellFormed == UNION {SleepDirs(k, MaxSamples, 0) : k \in 0..MaxFiles}
        dirs == wellFormed \cup UNION {Malformed(d) : d \in wellFormed}
    IN  [files : dirs, domain_a_percent : Percents, train_percent : Percents,
         seed : Seeds]

Stems == <<"ihs117", "ihs118", "ihs95">>

\* A smart-home file of n raw examples: row k carries the label stored with it.
HomeFile(stem, n) ==
    [stem |-> Stems[stem],
     features |-> [k \in 1..n |-> [file |-> stem, row |-> k - 1]],
     labels |-> [k \in 1..n |-> 10 * stem + k - 1]]

\* The directories: any of the three files, in the order of their names.
HomeDirs ==
    { LET present == SelectSeq(<<1, 2, 3>>, LAMBDA i : i \in P)
      IN  [j \in 1..Len(present) |-> HomeFile(present[j], n[present[j]])] :
        P \in SUBSET {1, 2, 3},
        n \in {m \in [{1, 2, 3} -> 0..MaxRaw] : m[2] = 1} }

HomeArgs ==
    [files : HomeDirs, A : {"ihs95"}, B : {"ihs117"}, train_percent : Percents,
     seed : Seeds, window_size : 1..MaxWindow]

StartOf(f) == IF f = "load_data_sleep" THEN "read" ELSE "scan"

Init ==
    /\ fn \in {"load_data_sleep", "load_data_home"}
    /\ args \in (IF fn = "load_data_sleep" THEN SleepArgs ELSE HomeArgs)
    /\ pc = StartOf(fn)
    /\ loc = <<>>
    /\ ret = NoRet
    /\ call = 1
    /\ entropy = 0
    /\ first = NoRet

\* The loader is invoked again with the same arguments; whatever an unseeded
\* generator would read has changed meanwhile.
Reinvoke ==
    /\ pc \in {"done", "failed"}
    /\ call = 1
    /\ call' = 2
    /\ first' = ret
    /\ ret' = NoRet
    /\ loc' = <<>>
    /\ pc' = StartOf(fn)
    /\ entropy' \in 1..MaxEntropy
    /\ UNCHANGED <<fn, args>>

Next ==
    \/ SleepReadFiles
    \/ SleepSplitSubjects
    \/ SleepConcatenate
    \/ SleepSplitTrainTest
    \/ HomeScan
    \/ HomeWindows
    \/ HomeShuffle
    \/ HomeSplitTrainTest
    \/ Reinvoke

Spec == Init /\ [][Next]_vars

(***************************************************************************)
(* Properties of the loaders, checked under Spec.                          *)
(***************************************************************************)
Range(s) == {s[i] : i \in DOMAIN s}
Perms(n) == {p \in [1..n -> 1..n] : \A i, j \in 1..n : p[i] = p[j] => i = j}

\* k = ceil(p * n) said without the code's arithmetic: the least integer that
\* is not below p * n.
IsCeilOf(k, p, n) == k * p[2] >= p[1] * n /\ (k - 1) * p[2] < p[1] * n

SleepDone == fn = "load_data_sleep" /\ pc = "done"
HomeDone == fn = "load_data_home" /\ pc = "done"

RowsOfA == Range(ret.value.train_data_a) \cup Range(ret.value.test_data_a)
RowsOfB == Range(ret.value.train_data_b) \cup Range(ret.value.test_data_b)
SubjectOfRow(r) == args.files[r.file].subject

\* C1: when load_data_sleep returns, no subject has examples in both domains:
\* the subject of an example returned for Domain A (train or test) is the
\* subject of no example returned for Domain B.
C1_SubjectDisjoint ==
    SleepDone =>
        \A ra \in RowsOfA, rb \in RowsOfB : SubjectOfRow(ra) # SubjectOfRow(rb)

\* A return where a subject read from two files has examples from both of them
\* and both domains hold examples.
C1_Witness ==
    /\ SleepDone
    /\ RowsOfA # {} /\ RowsOfB # {}
    /\ \E ra, rb \in RowsOfA \cup RowsOfB :
          ra.file # rb.file /\ SubjectOfRow(ra) = SubjectOfRow(rb)

\* C2: when load_data_sleep or load_data_home returns, each domain of n
\* examples gives a train set of exactly ceil(train_percent * n) examples and a
\* test set of the other n - ceil(train_percent * n), data and labels alike.
C2_SplitSize ==
    pc = "done" =>
        LET v == ret.value
            p == args.train_percent
        IN  /\ IsCeilOf(Len(v.train_data_a), p, Len(loc.a_x))
            /\ IsCeilOf(Len(v.train_data_b), p, Len(loc.b_x))
            /\ Len(v.test_data_a) = Len(loc.a_x) - Len(v.train_data_a)
            /\ Len(v.test_data_b) = Len(loc.b_x) - Len(v.train_data_b)
            /\ Len(v.train_labels_a) = Len(v.train_data_a)
            /\ Len(v.train_labels_b) = Len(v.train_data_b)
            /\ Len(v.test_labels_a) = Len(v.test_data_a)
            /\ Len(v.test_labels_b) = Len(v.test_data_b)

\* A return where train_percent * n is no integer, so the boundary was rounded
\* up, and both the train and the test set of Domain A hold examples.
C2_Witness ==
    /\ pc = "done"
    /\ (args.train_percent[1] * Len(loc.a_x)) % args.train_percent[2] # 0
    /\ Len(ret.value.train_data_a) >= 2
    /\ Len(ret.value.test_data_a) >= 1

C9_DomainSplit ==
    (fn = "load_data_sleep" /\ pc = "concat") =>
        LET n == Cardinality({args.files[i].subject : i \in DOMAIN args.files})
            k == Len(loc.domain_a_x)
        IN  /\ Len(loc.xs) = n /\ Len(loc.ys) = n
            /\ \E p \in Perms(n) : \A i \in 1..n :
                  /\ loc.xs[i] = loc.subject_x[loc.order[p[i]]]
                  /\ loc.ys[i] = loc.subject_y[loc.order[p[i]]]
            /\ IsCeilOf(k, args.domain_a_percent, n)
            /\ loc.domain_a_x = SubSeq(loc.xs, 1, k)
            /\ loc.domain_b_x = SubSeq(loc.xs, k + 1, n)
            /\ loc.domain_a_y = SubSeq(loc.ys, 1, k)
            /\ loc.domain_b_y = SubSeq(loc.ys, k + 1, n)

\* Two subjects, shuffled into the other order, a third of them asked for
\* Domain A: one subject goes to each domain.
C9_Witness ==
    /\ fn = "load_data_sleep" /\ pc = "concat"
    /\ args.domain_a_percent = <<1, 3>>
    /\ Len(loc.xs) = 2
    /\ loc.xs # Values(loc.order, loc.subject_x)
    /\ Len(loc.domain_a_x) = 1 /\ Len(loc.domain_b_x) = 1

AllX == ret.value.train_data_a \o ret.value.test_data_a
          \o ret.value.train_data_b \o ret.value.test_data_b
AllY == ret.value.train_labels_a \o ret.value.test_labels_a
          \o ret.value.train_labels_b \o ret.value.test_labels_b

\* Row k of the x of file i: the feature window of its k-th stage label.
OwnWindow(i, k) == [file |-> i, start |-> k - 1, stride |-> Len(args.files[i].stage)]

\* The input samples <<file, k>> whose stage label satisfies Keep.
Samples(Keep(_)) ==
    {ik \in (DOMAIN args.files) \X (1..MaxSamples) :
        /\ ik[2] <= Len(args.files[ik[1]].stage)
        /\ Keep(args.files[ik[1]].stage[ik[2]])}

\* Every sample of S is returned exactly once, with its own label, and nothing
\* else is returned.
KeptExactly(S) ==
    /\ Len(AllX) = Cardinality(S) /\ Len(AllY) = Cardinality(S)
    /\ \A ik \in S :
          \E j \in 1..Len(AllX) :
              /\ AllX[j] = OwnWindow(ik[1], ik[2])
              /\ AllY[j] = args.files[ik[1]].stage[ik[2]]
              /\ \A j2 \in 1..Len(AllX) : AllX[j2] = AllX[j] => j2 = j

InClassRange(l) == 0 <= l /\ l < NumStages
BelowNumStages(l) == l < NumStages

\* C10 as claimed: every returned label l satisfies 0 <= l < 6, and exactly the
\* input samples with a label in [0, 6) are returned, each with its own
\* feature window.
C10_AsClaimed ==
    SleepDone =>
        /\ \A j \in 1..Len(AllY) : InClassRange(AllY[j])
        /\ KeptExactly(Samples(InClassRange))

\* What the code does instead: only the upper end is tested.  Every returned
\* label l satisfies l < 6, and exactly the input samples with a label below 6
\* are returned, each with its own feature window.
DropsFromSixUp ==
    SleepDone =>
        /\ \A j \in 1..Len(AllY) : BelowNumStages(AllY[j])
        /\ KeptExactly(Samples(BelowNumStages))

\* The files whose rf does not have 750 columns for each stage label.
WrongShape == {i \in DOMAIN args.files :
                  Len(args.files[i].stage) * WindowLen # args.files[i].rf_cols}

FirstOf(S) == CHOOSE i \in S : \A j \in S : i <= j

\* C11: once load_data_sleep has read the directory, if some file's
\* label_count * 750 differs from its feature sample count then the call has
\* failed with the shape assertion at the first such file, and returns no
\* arrays: the files of the right shape are not returned on their own.
C11_ShapeAssertion ==
    (fn = "load_data_sleep" /\ pc # "read" /\ WrongShape # {}) =>
        /\ pc = "failed"
        /\ ret = Raised([type |-> "AssertionError", file |-> FirstOf(WrongShape)])

\* A directory whose first file is well formed and holds a valid stage, and
\* whose second file has the wrong shape: the call failed at the second file.
C11_Witness ==
    /\ fn = "load_data_sleep" /\ pc = "failed"
    /\ Len(args.files) >= 2
    /\ WrongShape = {2}
    /\ args.files[1].stage[1] = 5
    /\ ret = Raised([type |-> "AssertionError", file |-> 2])

StemsFound == {args.files[i].stem : i \in DOMAIN args.files}

\* C12: once load_data_home has scanned the directory, if the file named A or
\* the file named B is not among the *.hdf5 files then the call has failed with
\* the "Must find A and B domains" assertion and has built nothing (no window,
\* shuffle or split); it is past the scan only when both files were found.
C12_MissingDomain ==
    (fn = "load_data_home" /\ pc # "scan") =>
        /\ (args.A \notin StemsFound \/ args.B \notin StemsFound) =>
              /\ pc = "failed"
              /\ ret = Raised([type |-> "AssertionError", file |-> 0])
              /\ loc = <<>>
        /\ pc \in {"windows", "shuffle", "split", "done"} =>
              (args.A \in StemsFound /\ args.B \in StemsFound)

\* Domain A's file is there with examples enough for a window, Domain B's is
\* missing, and the call failed at the assertion.
C12_Witness ==
    /\ fn = "load_data_home" /\ pc = "failed"
    /\ args.A \in StemsFound /\ args.B \notin StemsFound
    /\ \E i \in DOMAIN args.files :
          args.files[i].stem = args.A /\ Len(args.files[i].labels) > args.window_size
    /\ ret = Raised([type |-> "AssertionError", file |-> 0])

\* What the scan of the directory found for the two domains.
Scanned == ScanFiles(args.files, 1, args.A, args.B, NothingFound)

\* C20 as claimed: with window_size = 1, the examples and labels that
\* load_data_home hands to the shuffle are, for each domain, what
\* create_windows(x, y, 1) returns on the expanded input (said here for
\* domains of two raw examples or more, where create_windows returns).
C20_AsClaimed ==
    (/\ fn = "load_data_home" /\ pc = "shuffle" /\ args.window_size = 1
     /\ Len(Scanned.a_y) >= 2 /\ Len(Scanned.b_y) >= 2) =>
        /\ create_windows(ExpandDims(Scanned.a_x), Scanned.a_y, 1)
              = Returned(<<loc.a_x, loc.a_y>>)
        /\ create_windows(ExpandDims(Scanned.b_x), Scanned.b_y, 1)
              = Returned(<<loc.b_x, loc.b_y>>)

\* What the code does instead: with window_size = 1 every raw example goes on
\* as a one-step window with its own label, the last one included, while
\* create_windows(x, y, 1) raises on a domain of at most one example and
\* otherwise returns all of these but the last.
C20_SkipKeepsLast ==
    (fn = "load_data_home" /\ pc = "shuffle" /\ args.window_size = 1) =>
        \A dom \in {<<Scanned.a_x, Scanned.a_y, loc.a_x, loc.a_y>>,
                     <<Scanned.b_x, Scanned.b_y, loc.b_x, loc.b_y>>} :
            LET n == Len(dom[2])
                w == create_windows(ExpandDims(dom[1]), dom[2], 1)
            IN  /\ Len(dom[3]) = n /\ Len(dom[4]) = n
                /\ \A k \in 1..n : dom[3][k] = <<dom[1][k]>> /\ dom[4][k] = dom[2][k]
                /\ IF n <= 1 THEN w.status = "raised"
                   ELSE w = Returned(<<Take(dom[3], n - 1), Take(dom[4], n - 1)>>)

\* The examples of a domain with their labels, in the order given.
Pairs(x, y) == [k \in 1..Len(x) |-> <<x[k], y[k]>>]

\* Train and test hold every example of the domain exactly once between them,
\* each with its own label, and nothing else.
IsPartitionOf(train_x, train_y, test_x, test_y, dom_x, dom_y) ==
    LET got == Pairs(train_x, train_y) \o Pairs(test_x, test_y)
    IN  /\ Len(train_x) = Len(train_y) /\ Len(test_x) = Len(test_y)
        /\ Len(got) = Len(dom_x)
        /\ \A k \in 1..Len(dom_x) :
              /\ Cardinality({j \in 1..Len(got) : got[j][1] = dom_x[k]}) = 1
              /\ \A j \in 1..Len(got) : got[j][1] = dom_x[k] => got[j][2] = dom_y[k]

\* A smart-home domain after windowing: every raw example as a one-step
\* window when window_size = 1, what create_windows returns otherwise.
HomeDomain(x, y) ==
    IF args.window_size = 1 THEN <<ExpandDims(x), y>>
    ELSE create_windows(ExpandDims(x), y, args.window_size).value

\* C21: when load_data_sleep or load_data_home returns, the train and test
\* sets of each domain partition the domain's examples (after filtering resp.
\* windowing): each example is in exactly one of the two, with its own label.
C21_TrainTestPartition ==
    /\ SleepDone =>
          /\ IsPartitionOf(ret.value.train_data_a, ret.value.train_labels_a,
                           ret.value.test_data_a, ret.value.test_labels_a,
                           Stack(loc.domain_a_x), Stack(loc.domain_a_y))
          /\ IsPartitionOf(ret.value.train_data_b, ret.value.train_labels_b,
                           ret.value.test_data_b, ret.value.test_labels_b,
                           Stack(loc.domain_b_x), Stack(loc.domain_b_y))
    /\ HomeDone =>
          /\ IsPartitionOf(ret.value.train_data_a, ret.value.train_labels_a,
                           ret.value.test_data_a, ret.value.test_labels_a,
                           HomeDomain(Scanned.a_x, Scanned.a_y)[1],
                           HomeDomain(Scanned.a_x, Scanned.a_y)[2])
          /\ IsPartitionOf(ret.value.train_data_b, ret.value.train_labels_b,
                           ret.value.test_data_b, ret.value.test_labels_b,
                           HomeDomain(Scanned.b_x, Scanned.b_y)[1],
                           HomeDomain(Scanned.b_x, Scanned.b_y)[2])

\* load_data_home returned with windows of two raw examples: Domain A's two
\* windows were reordered by the shuffle and cut into one for training and one
\* for testing.
C21_Witness ==
    /\ HomeDone
    /\ args.window_size = 2
    /\ args.train_percent = <<1, 3>>
    /\ Len(ret.value.train_data_a) = 1 /\ Len(ret.value.test_data_a) = 1
    /\ ret.value.train_data_a \o ret.value.test_data_a
         # HomeDomain(Scanned.a_x, Scanned.a_y)[1]
    /\ Len(ret.value.train_data_b) >= 1

\* Every file has the right shape and some file holds a sample with a stage
\* label in [0, 6): at least one subject has at least one valid sample.
HasValidSample ==
    /\ WrongShape = {}
    /\ \E i \in DOMAIN args.files :
          \E k \in 1..Len(args.files[i].stage) : InClassRange(args.files[i].stage[k])

SleepEnded == fn = "load_data_sleep" /\ pc \in {"done", "failed"}

\* The eight arrays.
EightArrays ==
    /\ pc = "done"
    /\ ret.status = "returned"
    /\ DOMAIN ret.value = {"train_data_a", "train_labels_a", "test_data_a",
                           "test_labels_a", "train_data_b", "train_labels_b",
                           "test_data_b", "test_labels_b"}

\* C22 as claimed: on every input with at least one subject having at least
\* one valid sample, for every domain_a_percent and train_percent in (0, 1],
\* load_data_sleep returns eight arrays, also when Domain B gets no subject.
C22_AsClaimed ==
    (SleepEnded /\ HasValidSample) => EightArrays

\* The subjects of the directory.
Subjects == {args.files[i].subject : i \in DOMAIN args.files}

\* What the code does instead: on a directory of well-formed files the call
\* returns eight arrays exactly when Domain B gets a subject, that is when
\* ceil(domain_a_percent * subject_count) is below the subject count; when
\* Domain B gets none (one subject, or domain_a_percent = 1) it raises.
C22_ReturnsUnlessDomainEmpty ==
    (SleepEnded /\ WrongShape = {}) =>
        LET n == Cardinality(Subjects)
        IN  IF \E k \in 1..(n - 1) : IsCeilOf(k, args.domain_a_percent, n)
            THEN EightArrays
            ELSE pc = "failed" /\ ret = Raised([type |-> "ValueError", file |-> 0])

(***************************************************************************)
(* The functions called on their own: one call with arguments drawn from   *)
(* bounded sets.                                                           *)
(***************************************************************************)
ShuffleArgs ==
    UNION { [a : [1..n -> 1..2], b : [1..n -> 1..2], seed : Seeds \cup {None}] :
            n \in 0..MaxLen }

\* Raw examples 0..n-1 after np.expand_dims(x, axis=1), with any labels.
WindowArgs ==
    UNION { [x : {ExpandDims([k \in 1..n |-> [file |-> 1, row |-> k - 1]])},
             y : [1..n -> 0..1],
             window_size : 1..MaxWindow] : n \in 0..MaxRaw }

\* The y arrays handed to one_hot: class indices of shape (n,) or (n, 1) with
\* labels 0..MaxClasses, and matrices of shape (n, w) or (n, 1, w) whose row j
\* has a 1 at column hot[j] - 1 (nowhere when hot[j] = 0).
IndexArrays ==
    UNION { [shape : {<<n>>, <<n, 1>>}, data : [1..n -> 0..MaxClasses], dtype : {"uint8"}] :
            n \in 0..MaxExamples }

MatrixData(n, w, hot) ==
    Stack([j \in 1..n |-> [c \in 1..w |-> IF c = hot[j] THEN 1 ELSE 0]])

MatrixArrays ==
    UNION { { [shape |-> sh, data |-> MatrixData(n, w, hot), dtype |-> "uint8"] :
                sh \in {<<n, w>>, <<n, 1, w>>}, hot \in [1..n -> 0..w] } :
            n \in 1..MaxExamples, w \in 2..MaxClasses }

OneHotArgs ==
    [x : {[shape |-> <<2, 3>>, dtype |-> "float64"], [shape |-> <<2, 3, 1>>, dtype |-> "float64"]},
     y : IndexArrays \cup MatrixArrays,
     num_classes : 2..MaxClasses,
     index_one : BOOLEAN]

\* tf.one_hot(indices, depth): one row per index, 1 at the index.
TfOneHot(indices, depth) ==
    [k \in 1..Len(indices) |-> [c \in 1..depth |-> IF c - 1 = indices[k] THEN 1 ELSE 0]]

\* tf.tile(m, [reps, 1]) and np.tile(m, [reps, 1]) of a matrix m: its rows,
\* reps times over.
Tile(m, reps) == [k \in 1..(Len(m) * reps) |-> m[((k - 1) % Len(m)) + 1]]

\* Line 108: the label is not used.
tf_domain_labels(label, batch_size) == Tile(TfOneHot(<<0>>, 2), batch_size)

\* Line 112: np.tile takes the row np.eye(2)[label] as a matrix of one row.
domain_labels(label, batch_size) == Tile(<<EyeRow(2, label)>>, batch_size)

DomainLabelArgs == [label : {0, 1}, batch_size : 0..MaxBatchSize]

InitFn ==
    /\ fn \in {"shuffle_together", "shuffle_together_np", "create_windows", "one_hot",
               "tf_domain_labels", "domain_labels"}
    /\ args \in (CASE fn = "create_windows" -> WindowArgs
                   [] fn = "one_hot" -> OneHotArgs
                   [] fn \in {"tf_domain_labels", "domain_labels"} -> DomainLabelArgs
                   [] OTHER -> ShuffleArgs)
    /\ pc = "call"
    /\ loc = <<>>
    /\ ret = NoRet
    /\ call = 1
    /\ entropy \in 0..MaxEntropy
    /\ first = NoRet

CallShuffleTogether ==
    /\ fn = "shuffle_together" /\ pc = "call"
    /\ pc' = "done"
    /\ ret' = Returned(shuffle_together(args.a, args.b, args.seed))
    /\ UNCHANGED <<fn, args, loc, call, entropy, first>>

CallShuffleTogetherNp ==
    /\ fn = "shuffle_together_np" /\ pc = "call"
    /\ pc' = "done"
    /\ ret' = Returned(shuffle_together_np(args.a, args.b, args.seed))
    /\ UNCHANGED <<fn, args, loc, call, entropy, first>>

CallCreateWindows ==
    /\ fn = "create_windows" /\ pc = "call"
    /\ pc' = "done"
    /\ ret' = create_windows(args.x, args.y, args.window_size)
    /\ UNCHANGED <<fn, args, loc, call, entropy, first>>

CallOneHot ==
    /\ fn = "one_hot" /\ pc = "call"
    /\ pc' = "done"
    /\ ret' = one_hot(args.x, args.y, args.num_classes, args.index_one)
    /\ UNCHANGED <<fn, args, loc, call, entropy, first>>

CallTfDomainLabels ==
    /\ fn = "tf_domain_labels" /\ pc = "call"
    /\ pc' = "done"
    /\ ret' = Returned(tf_domain_labels(args.label, args.batch_size))
    /\ UNCHANGED <<fn, args, loc, call, entropy, first>>

CallDomainLabels ==
    /\ fn = "domain_labels" /\ pc = "call"
    /\ pc' = "done"
    /\ ret' = Returned(domain_labels(args.label, args.batch_size))
    /\ UNCHANGED <<fn, args, loc, call, entropy, first>>

NextFn ==
    \/ CallShuffleTogether
    \/ CallShuffleTogetherNp
    \/ CallCreateWindows
    \/ CallOneHot
    \/ CallTfDomainLabels
    \/ CallDomainLabels

SpecFn == InitFn /\ [][NextFn]_vars

(***************************************************************************)
(* Properties of the functions, checked under SpecFn.                      *)
(***************************************************************************)
FnDone(f) == fn = f /\ pc = "done"

\* Both results are one permutation p of a and of b: position j of both comes
\* from the same input index p[j].
PairedPermutation ==
    /\ Len(ret.value) = 2
    /\ \E p \in Perms(Len(args.a)) :
          \A j \in 1..Len(args.a) :
              /\ ret.value[1][j] = args.a[p[j]]
              /\ ret.value[2][j] = args.b[p[j]]

\* C3 as claimed: for any a, b of equal length and any seed, each shuffle
\* returns two sequences that are one permutation of a and of b.
C3_AsClaimed ==
    (FnDone("shuffle_together") \/ FnDone("shuffle_together_np")) => PairedPermutation

\* What the code does: that holds of shuffle_together_np on every input and of
\* shuffle_together on every non-empty one.
PairedUnlessEmptyLists ==
    (FnDone("shuffle_together_np") \/ (FnDone("shuffle_together") /\ args.a # <<>>))
        => PairedPermutation

\* Raw example r (0-based) of the x handed to create_windows.
RawRow(r) == args.x[r + 1][1]

\* The windows are those of the 0-based starts 0 .. count-1: window i is the
\* raw examples i .. i+window_size-1 in order, labelled y[i+window_size-1].
WindowsAre(count) ==
    /\ ret.status = "returned"
    /\ Len(ret.value[1]) = count /\ Len(ret.value[2]) = count
    /\ \A i \in 0..(count - 1) :
          /\ ret.value[1][i + 1] = [t \in 1..args.window_size |-> RawRow(i + t - 1)]
          /\ ret.value[2][i + 1] = args.y[i + args.window_size]

Emitted(i) ==
    /\ ret.status = "returned"
    /\ \E j \in 1..Len(ret.value[1]) : ret.value[1][j][1] = RawRow(i)

\* C6 as claimed, for the calls that return: a window is emitted for start i
\* exactly when i + window_size <= n, so only the last window_size - 1 raw
\* samples start no window.
C6_AsClaimed ==
    (FnDone("create_windows") /\ ret.status = "returned") =>
        \A i \in 0..(Len(args.y) - 1) :
            Emitted(i) <=> (i + args.window_size <= Len(args.y))

\* What the code does: a window is emitted exactly when i + window_size < n.
EmittedBelowEnd ==
    (FnDone("create_windows") /\ ret.status = "returned") =>
        \A i \in 0..(Len(args.y) - 1) :
            Emitted(i) <=> (i + args.window_size < Len(args.y))

\* C7: when the squeezed y is 2-D with second dimension num_classes, one_hot
\* returns y with its shape and its values, as float32, whatever index_one is.
C7_PassThrough ==
    (/\ FnDone("one_hot")
     /\ Len(SqueezedShape(args.y.shape)) = 2
     /\ SqueezedShape(args.y.shape)[2] = args.num_classes) =>
        /\ ret.status = "returned"
        /\ ret.value[2].shape = args.y.shape
        /\ ret.value[2].data = args.y.data
        /\ ret.value[2].dtype = "float32"

\* A (2, 1, 3) one-hot y with index_one set comes back as it was.
C7_Witness ==
    /\ FnDone("one_hot")
    /\ args.index_one
    /\ args.y.shape = <<2, 1, 3>>
    /\ args.y.data = <<0, 1, 0, 0, 0, 1>>
    /\ ret.status = "returned"
    /\ ret.value[2].data = args.y.data

\* The labels of a 1-D y are in range: 1..num_classes with index_one,
\* 0..num_classes-1 without.
LabelColumn(j) == args.y.data[j] - (IF args.index_one THEN 1 ELSE 0)
LabelsInRange ==
    /\ Len(args.y.shape) = 1
    /\ \A j \in 1..Len(args.y.data) :
          0 <= LabelColumn(j) /\ LabelColumn(j) < args.num_classes

\* The returned y is an n x num_classes matrix whose row j has its single 1 at
\* the column of label j.
OneHotMatrix ==
    /\ ret.status = "returned"
    /\ ret.value[2].shape = <<Len(args.y.data), args.num_classes>>
    /\ \A j \in 1..Len(args.y.data), c \in 1..args.num_classes :
          ret.value[2].data[(j - 1) * args.num_classes + c]
            = IF c - 1 = LabelColumn(j) THEN 1 ELSE 0

\* C8 as claimed: for a 1-D y of n labels in range one_hot returns an
\* n x num_classes matrix whose row j has its single 1 at column label - 1
\* with index_one, at column label without.
C8_AsClaimed ==
    (FnDone("one_hot") /\ LabelsInRange) => OneHotMatrix

\* What the code does: that holds unless y holds exactly one label.
OneHotMatrixUnlessSingle ==
    (FnDone("one_hot") /\ LabelsInRange /\ Len(args.y.data) # 1) => OneHotMatrix

\* y as the claim takes it: n class indices in range, of shape [n] or [n, 1],
\* or n one-hot rows, of shape [n, num_classes].
IndicesInRange ==
    \A j \in 1..Len(args.y.data) : 0 <= LabelColumn(j) /\ LabelColumn(j) < args.num_classes

IsOneHotRow(j) ==
    Cardinality({c \in 1..args.num_classes :
                    args.y.data[(j - 1) * args.num_classes + c] = 1}) = 1

LabelsOfExamples(n) ==
    \/ args.y.shape \in {<<n>>, <<n, 1>>} /\ IndicesInRange
    \/ args.y.shape = <<n, args.num_classes>> /\ \A j \in 1..n : IsOneHotRow(j)

LabelMatrixOf(n) ==
    /\ ret.status = "returned"
    /\ ret.value[2].shape = <<n, args.num_classes>>

\* C24 as claimed: for every n >= 1, n = 1 included, one_hot returns a label
\* matrix of exactly n rows and num_classes columns, for class indices of
\* shape [n] or [n, 1] and for a y already one-hot of shape [n, num_classes].
C24_AsClaimed ==
    FnDone("one_hot") =>
        \A n \in 1..MaxExamples : LabelsOfExamples(n) => LabelMatrixOf(n)

\* What the code does: that holds from two examples on; the labels of a
\* single example never come back as a matrix of one row.
C24_RowsUnlessSingle ==
    FnDone("one_hot") =>
        /\ \A n \in 2..MaxExamples : LabelsOfExamples(n) => LabelMatrixOf(n)
        /\ LabelsOfExamples(1) => ~LabelMatrixOf(1)

\* batch_size rows, each the one-hot encoding of label over the two domains.
DomainRowsOf(label, batch_size) ==
    [k \in 1..batch_size |-> [c \in 1..2 |-> IF c = label + 1 THEN 1 ELSE 0]]

DomainLabelsDone == FnDone("tf_domain_labels") \/ FnDone("domain_labels")

\* C23 as claimed: for every label in {0, 1} and every batch_size,
\* tf_domain_labels and domain_labels give the same matrix, batch_size rows of
\* the one-hot encoding of label.
C23_AsClaimed ==
    DomainLabelsDone =>
        /\ ret.value = DomainRowsOf(args.label, args.batch_size)
        /\ tf_domain_labels(args.label, args.batch_size)
              = domain_labels(args.label, args.batch_size)

\* What the code does instead: domain_labels gives the rows of label;
\* tf_domain_labels gives the rows of domain 0 whatever the label, so the two
\* agree for label 0, and for label 1 only on an empty batch.
C23_TfLabelsAlwaysDomainZero ==
    /\ FnDone("domain_labels") => ret.value = DomainRowsOf(args.label, args.batch_size)
    /\ FnDone("tf_domain_labels") => ret.value = DomainRowsOf(0, args.batch_size)

(***************************************************************************)
(* model.py.  A tensor is the value it takes in one run of the graph: a    *)
(* batch is a sequence of rows.  What the trained layers compute is not    *)
(* modelled: the raw output of a classifier is any matrix of the right     *)
(* shape (net), and an encoder, a softmax, a sigmoid or a cross-entropy is *)
(* the record of the operation and its operands.  A sum of losses is the   *)
(* sequence of its summands.                                               *)
(***************************************************************************)
MaxBatch == 3        \* rows of the fed batch, 1..MaxBatch

\* The raw output of a two-class classifier for one example (a tie included)
\* and the one-hot labels.
LogitRows == {<<0, 1>>, <<1, 0>>, <<1, 1>>}
OneHotRows == {<<1, 0>>, <<0, 1>>}

\* class_weights: the default float 1.0 (held as its one item), or a list of
\* one weight per class.
ClassWeights == {[type |-> "float", value |-> <<1>>], [type |-> "list", value |-> <<2, 3>>]}

\* The number a float or an int is.
Number(class_weights) == class_weights.value[1]

\* tf.nn.softmax and tf.nn.sigmoid, row by row.
Softmax(m) == [i \in 1..Len(m) |-> [op |-> "softmax", row |-> m[i]]]
Sigmoid(m) == [i \in 1..Len(m) |-> [op |-> "sigmoid", row |-> m[i]]]

\* classifier(): the raw output of the last layer and its two transforms.
classifier(x, classifier_output) ==
    [classifier_output |-> classifier_output,
     softmax_output |-> Softmax(classifier_output),
     sigmoid_output |-> Sigmoid(classifier_output)]

\* batch_size // 2
HalfRoundedUp(batch_size) == (batch_size + 1) \div 2
Half(batch_size) == batch_size \div 2

\* tf.cond(training, lambda: tf.slice(t, [0, 0], [batch_size // 2, -1]), lambda: t)
SourceRows(training, t, batch_size) ==
    IF training THEN Take(t, Half(batch_size)) ELSE t

\* tf.argmax(m, axis=-1), counted from 1: the first index of the largest entry.
ArgMin(row) ==
    CHOOSE j \in 1..Len(row) :
        /\ \A k \in 1..Len(row) : row[j] <= row[k]
        /\ \A k \in 1..(j - 1) : row[k] > row[j]
ArgMax(row) ==
    CHOOSE j \in 1..Len(row) :
        /\ \A k \in 1..Len(row) : row[j] >= row[k]
        /\ \A k \in 1..(j - 1) : row[k] < row[j]

\* tf.gather(class_weights, which_label)
Gather(class_weights, which_label) ==
    [i \in 1..Len(which_label) |-> class_weights[which_label[i]]]

\* The weights of a loss: a number (rank 0), one weight for each example
\* (rank 1) or one for each output of each example (rank 2).
Weights(rank, value) == [rank |-> rank, value |-> value]

\* isinstance(class_weights, float) or isinstance(class_weights, int)
IsNumber(class_weights) == class_weights.type \in {"float", "int"}

\* tf.losses.sigmoid_cross_entropy / softmax_cross_entropy(labels, logits, weights)
CrossEntropy(op, labels, logits, weights) ==
    [op |-> op, labels |-> labels, logits |-> logits, weights |-> weights]

\* Lines 250-254.
TaskOutputSoftmax(multi_class, task_softmax, task_sigmoid) == task_softmax
TaskOutput(multi_class, task_softmax, task_sigmoid) ==
    IF multi_class THEN task_sigmoid ELSE task_softmax

\* build_model on the encoder output x.  net is what the last layers of the
\* task classifier and of the domain classifiers evaluate to on this batch.
build_model(x, y, domain, training, adaptation, multi_class, class_weights, two_domain_classifiers, use_feature_extractor, net) ==
    LET feature_extractor ==
            IF use_feature_extractor
            THEN [i \in 1..Len(x) |-> [op |-> "feature_extractor", x |-> x[i]]]
            ELSE x
        task == classifier(feature_extractor, net.task)
        dom == classifier(feature_extractor, net.domain)
        dom2 == classifier(x, net.domain2)
        batch_size == Len(feature_extractor)
        task_classifier ==
            IF adaptation THEN SourceRows(training, task.classifier_output, batch_size)
            ELSE task.classifier_output
        task_softmax ==
            IF adaptation THEN SourceRows(training, task.softmax_output, batch_size)
            ELSE task.softmax_output
        task_sigmoid ==
            IF adaptation THEN SourceRows(training, task.sigmoid_output, batch_size)
            ELSE task.sigmoid_output
        y1 == IF adaptation THEN SourceRows(training, y, batch_size) ELSE y
        which_label == [i \in 1..Len(task_classifier) |-> ArgMax(task_classifier[i])]
        tiled_class_weights ==
            IF IsNumber(class_weights) THEN Weights(0, Number(class_weights))
            ELSE Weights(2, [i \in 1..Len(y1) |-> class_weights.value])
        batch_class_weights ==
            IF IsNumber(class_weights) THEN Weights(0, Number(class_weights))
            ELSE Weights(1, Gather(class_weights.value, which_label))
        task_loss ==
            IF multi_class
            THEN CrossEntropy("sigmoid_cross_entropy", y1, task_classifier,
                              tiled_class_weights)
            ELSE CrossEntropy("softmax_cross_entropy", y1, task_classifier,
                              batch_class_weights)
        domain_loss ==
            <<CrossEntropy("softmax_cross_entropy", domain, dom.classifier_output,
                           Weights(0, 1))>>
            \o (IF two_domain_classifiers
                THEN <<CrossEntropy("softmax_cross_entropy", domain,
                                    dom2.classifier_output, Weights(0, 1))>>
                ELSE <<>>)
    IN  [task_output |-> TaskOutput(multi_class, task_softmax, task_sigmoid),
         domain_softmax |-> dom.softmax_output,
         task_loss |-> task_loss,
         domain_loss |-> domain_loss,
         feature_extractor |-> feature_extractor]

\* What an encoder (TCN, LSTM, VRNN cell, CNN, reshape) makes of each example.
Encode(op, x) == [i \in 1..Len(x) |-> [op |-> op, x |-> x[i]]]

\* tf.reduce_mean
ReduceMean(t) == [op |-> "reduce_mean", of |-> t]

\* if adaptation: total_loss += domain_loss
AddDomainLossAlways(total_loss, domain_loss, adaptation) == total_loss \o domain_loss
AddDomainLoss(total_loss, domain_loss, adaptation) ==
    IF adaptation THEN total_loss \o domain_loss ELSE total_loss

\* The builders' call of build_model: two_domain_classifiers keeps its default.
BuildModelOn(encoded, a) ==
    build_model(encoded, a.y, a.domain, a.training, a.adaptation, a.multi_class,
                a.class_weights, FALSE, a.use_feature_extractor, a.net)

\* What a builder returns, with the locals it got from build_model.
BuilderResult(m, total_loss, extra_outputs) ==
    [locals |-> m,
     value |-> [task_output |-> m.task_output,
                domain_softmax |-> m.domain_softmax,
                total_loss |-> total_loss,
                feature_extractor |-> m.feature_extractor,
                extra_outputs |-> extra_outputs]]

build_tcn(a) ==
    LET m == BuildModelOn(Encode("tcn", a.x), a)
    IN  BuilderResult(m, AddDomainLoss(<<m.task_loss>>, m.domain_loss, a.adaptation), None)

build_flat(a) ==
    LET m == BuildModelOn(Encode("reshape", a.x), a)
    IN  BuilderResult(m, AddDomainLoss(<<m.task_loss>>, m.domain_loss, a.adaptation), None)

build_lstm(a) ==
    LET m == BuildModelOn(Encode("lstm", a.x), a)
    IN  BuilderResult(m, AddDomainLoss(<<m.task_loss>>, m.domain_loss, a.adaptation), None)

\* tf.reduce_mean(kl_loss) + tf.reduce_mean(likelihood_loss)
VrnnLossesKlTwice(kl_loss, likelihood_loss) ==
    <<ReduceMean(kl_loss), ReduceMean(kl_loss)>>
VrnnLosses(kl_loss, likelihood_loss) ==
    <<ReduceMean(kl_loss), ReduceMean(likelihood_loss)>>

build_vrnn(a) ==
    LET outputs == Encode("vrnn", a.x)
        m == BuildModelOn(outputs, a)
        kl_loss == [op |-> "kl_gaussian", outputs |-> outputs]
        likelihood_loss == [op |-> "negative_log_likelihood", outputs |-> outputs, x |-> a.x]
    IN  BuilderResult(m,
            AddDomainLoss(<<m.task_loss>> \o VrnnLosses(kl_loss, likelihood_loss),
                          m.domain_loss, a.adaptation),
            <<[op |-> "decoder_mu", outputs |-> outputs],
              [op |-> "decoder_sigma", outputs |-> outputs]>>)

build_cnn(a) ==
    LET m == BuildModelOn(Encode("cnn", a.x), a)
    IN  BuilderResult(m, AddDomainLoss(<<m.task_loss>>, m.domain_loss, a.adaptation), None)

\* create_cell(): a new recurrent cell at each call, number k the k-th made.
create_cell(kind, k) == [cell |-> kind, number |-> k, wrappers |-> <<>>]

\* tf.contrib.rnn.DropoutWrapper(c, output_keep_prob=keep_prob)
DropoutWrapper(c, keep_prob) ==
    [c EXCEPT !.wrappers = <<[wrapper |-> "DropoutWrapper", output_keep_prob |-> keep_prob]>> \o @]

\* tf.nn.dynamic_rnn, and each direction of tf.nn.bidirectional_dynamic_rnn:
\* the outputs and the final state of running one cell over x.
DynamicRnn(cell, x, direction) ==
    [outputs |-> [op |-> "rnn_outputs", cell |-> cell, x |-> x, direction |-> direction],
     final_state |-> [op |-> "rnn_state", cell |-> cell, x |-> x, direction |-> direction]]

\* build_rnn, lines 25 to 55.  The cells are wrapped before the backward cell
\* is appended.  tf.concat(outputs, axis=-1) is the sequence of its parts.
build_rnn(x, keep_prob, create, dropout, bidirectional) ==
    LET made == <<create_cell(create, 1)>>
        wrapped == IF dropout
                   THEN [i \in 1..Len(made) |-> DropoutWrapper(made[i], keep_prob)]
                   ELSE made
        cells == IF bidirectional THEN Append(wrapped, create_cell(create, 2)) ELSE wrapped
        runs == IF bidirectional
                THEN <<DynamicRnn(cells[1], x, "forward"), DynamicRnn(cells[2], x, "backward")>>
                ELSE <<DynamicRnn(cells[1], x, "forward")>>
    IN  [locals |-> [cells |-> cells],
         value |-> [outputs |-> [i \in 1..Len(runs) |-> runs[i].outputs],
                    cells |-> cells,
                    final_state |-> [i \in 1..Len(runs) |-> runs[i].final_state]]]

Builders == {"build_tcn", "build_flat", "build_lstm", "build_vrnn", "build_cnn"}

Build(f, a) ==
    CASE f = "build_tcn" -> build_tcn(a)
      [] f = "build_flat" -> build_flat(a)
      [] f = "build_lstm" -> build_lstm(a)
      [] f = "build_vrnn" -> build_vrnn(a)
      [] f = "build_cnn" -> build_cnn(a)

\* The fed batches of n examples and what the classifiers' last layers give on
\* them.  The first half of a batch is the source domain, the rest the target.
Matrices(Rows, n) == [1..n -> Rows]

DomainOutputs(n) == {[i \in 1..n |-> r] : r \in OneHotRows}

ModelArgs(f) ==
    UNION {
        [x : {[i \in 1..n |-> i]},
         y : Matrices(OneHotRows, n),
         domain : {[i \in 1..n |-> IF i <= n \div 2 THEN <<1, 0>> ELSE <<0, 1>>]},
         training : BOOLEAN,
         adaptation : BOOLEAN,
         multi_class : BOOLEAN,
         class_weights : ClassWeights,
         two_domain_classifiers : IF f = "build_model" THEN BOOLEAN ELSE {FALSE},
         use_feature_extractor : {TRUE},
         net : [task : Matrices(LogitRows, n),
                domain : DomainOutputs(n),
                domain2 : {[i \in 1..n |-> <<0, 0>>]}]] :
        n \in 1..MaxBatch }

\* keep_prob as a fraction <<numerator, denominator>>.
RnnArgs ==
    [x : {[i \in 1..n |-> i] : n \in 1..MaxBatch},
     keep_prob : {<<1, 2>>, <<4, 5>>, <<1, 1>>},
     create_cell : {"BasicLSTMCell", "LayerNormBasicLSTMCell"},
     dropout : BOOLEAN,
     bidirectional : BOOLEAN]

InitModel ==
    /\ fn \in Builders \cup {"build_model", "build_rnn"}
    /\ args \in (IF fn = "build_rnn" THEN RnnArgs ELSE ModelArgs(fn))
    /\ pc = "call"
    /\ loc = <<>>
    /\ ret = NoRet
    /\ call = 1
    /\ entropy = 0
    /\ first = NoRet

\* The builder returns.
Return(r) ==
    /\ pc' = "done"
    /\ loc' = r.locals
    /\ ret' = Returned(r.value)
    /\ UNCHANGED <<fn, args, call, entropy, first>>

BuildTcn ==
    /\ fn = "build_tcn" /\ pc = "call"
    /\ Return(build_tcn(args))

BuildFlat ==
    /\ fn = "build_flat" /\ pc = "call"
    /\ Return(build_flat(args))

BuildLstm ==
    /\ fn = "build_lstm" /\ pc = "call"
    /\ Return(build_lstm(args))

BuildVrnn ==
    /\ fn = "build_vrnn" /\ pc = "call"
    /\ Return(build_vrnn(args))

BuildCnn ==
    /\ fn = "build_cnn" /\ pc = "call"
    /\ Return(build_cnn(args))

BuildModel ==
    /\ fn = "build_model" /\ pc = "call"
    /\ pc' = "done"
    /\ loc' = <<>>
    /\ ret' = Returned(build_model(Encode("input", args.x), args.y, args.domain,
                  args.training, args.adaptation, args.multi_class, args.class_weights,
                  args.two_domain_classifiers, args.use_feature_extractor, args.net))
    /\ UNCHANGED <<fn, args, call, entropy, first>>

BuildRnn ==
    /\ fn = "build_rnn" /\ pc = "call"
    /\ Return(build_rnn(args.x, args.keep_prob, args.create_cell, args.dropout,
                        args.bidirectional))

NextModel ==
    \/ BuildRnn
    \/ BuildTcn
    \/ BuildFlat
    \/ BuildLstm
    \/ BuildVrnn
    \/ BuildCnn
    \/ BuildModel

SpecModel == InitModel /\ [][NextModel]_vars

(***************************************************************************)
(* Properties of the model assembly, checked under SpecModel.              *)
(***************************************************************************)
BuilderDone == fn \in Builders /\ pc = "done"
ModelDone == fn \in Builders \cup {"build_model"} /\ pc = "done"

\* The tensors build_model left: a builder's locals, or what build_model
\* returned when it was called itself.
ModelLocals == IF fn = "build_model" THEN ret.value ELSE loc

TotalLoss == ret.value.total_loss

IsMeanOf(t, op) == t.op = "reduce_mean" /\ t.of.op = op

\* The same call with any other output of the domain classifier gives the
\* same total loss.
IgnoresDomainClassifier ==
    \A d \in DomainOutputs(Len(args.x)) :
        Build(fn, [args EXCEPT !.net.domain = d]).value.total_loss = TotalLoss

\* C13 as claimed: for every builder, build_vrnn included, with
\* adaptation=False the total loss is the task loss alone.
C13_AsClaimed ==
    (BuilderDone /\ ~args.adaptation) =>
        /\ TotalLoss = <<loc.task_loss>>
        /\ IgnoresDomainClassifier

\* C13: with adaptation=False the total loss of build_flat, build_lstm,
\* build_tcn and build_cnn is the task loss alone; that of build_vrnn is the
\* task loss plus the mean KL and the mean reconstruction loss; and in all five
\* it does not depend on the domain classifier's output.
C13_TaskLossAloneUnlessVrnn ==
    (BuilderDone /\ ~args.adaptation) =>
        /\ fn # "build_vrnn" => TotalLoss = <<loc.task_loss>>
        /\ fn = "build_vrnn" =>
              /\ Len(TotalLoss) = 3
              /\ TotalLoss[1] = loc.task_loss
              /\ IsMeanOf(TotalLoss[2], "kl_gaussian")
              /\ IsMeanOf(TotalLoss[3], "negative_log_likelihood")
        /\ IgnoresDomainClassifier

\* build_vrnn returned without adaptation, on a batch where another output of
\* the domain classifier would have changed the domain loss.
C13_Witness ==
    /\ fn = "build_vrnn" /\ pc = "done" /\ ~args.adaptation
    /\ Len(args.x) >= 2
    /\ Len(TotalLoss) = 3
    /\ \E d \in DomainOutputs(Len(args.x)) :
          Build(fn, [args EXCEPT !.net.domain = d]).locals.domain_loss # loc.domain_loss

\* C14: the total loss a builder returns is the sum of the task loss, then of
\* the mean KL and mean reconstruction losses exactly when the builder is
\* build_vrnn, then of the domain loss exactly when adaptation is enabled: each
\* once, and nothing else.
C14_TotalLossTerms ==
    BuilderDone =>
        LET vrnn == IF fn = "build_vrnn" THEN 2 ELSE 0
            adapt == IF args.adaptation THEN 1 ELSE 0
        IN  /\ Len(loc.domain_loss) = 1
            /\ Len(TotalLoss) = 1 + vrnn + adapt
            /\ TotalLoss[1] = loc.task_loss
            /\ fn = "build_vrnn" =>
                  /\ IsMeanOf(TotalLoss[2], "kl_gaussian")
                  /\ IsMeanOf(TotalLoss[3], "negative_log_likelihood")
            /\ args.adaptation => TotalLoss[1 + vrnn + 1] = loc.domain_loss[1]

\* build_vrnn returned with adaptation: four summands.
C14_Witness ==
    /\ fn = "build_vrnn" /\ pc = "done" /\ args.adaptation
    /\ Len(TotalLoss) = 4
    /\ TotalLoss[4] # TotalLoss[1]

\* k = floor(n / 2)
IsHalfOf(k, n) == 2 * k <= n /\ n < 2 * k + 2

\* C15: when adaptation is enabled and training is true, the task loss is
\* computed from the first floor(batch_size / 2) rows of the task classifier's
\* output and from the same rows of y; otherwise from the whole batch.
C15_SourceHalf ==
    ModelDone =>
        LET n == Len(args.x)
            task_loss == ModelLocals.task_loss
        IN  IF args.adaptation /\ args.training
            THEN \E k \in 0..n :
                    /\ IsHalfOf(k, n)
                    /\ task_loss.logits = Take(args.net.task, k)
                    /\ task_loss.labels = Take(args.y, k)
            ELSE /\ task_loss.logits = args.net.task
                 /\ task_loss.labels = args.y

\* build_model ran on an odd batch of three with adaptation and training: one
\* row is left, of a batch whose first two rows differ.
C15_Witness ==
    /\ fn = "build_model" /\ pc = "done"
    /\ args.adaptation /\ args.training
    /\ Len(args.x) = 3
    /\ args.y[1] # args.y[2] /\ args.net.task[1] # args.net.task[2]
    /\ Len(ret.value.task_loss.labels) = 1
    /\ Len(ret.value.task_loss.logits) = 1

\* C16: the task output is the sigmoid of the task classifier's raw output
\* when multi_class is true and its softmax when it is false, and the task
\* loss is the matching cross-entropy on the raw output.
C16_OutputMatchesLoss ==
    ModelDone =>
        LET task_loss == ModelLocals.task_loss
            raw == task_loss.logits
        IN  /\ raw = Take(args.net.task, Len(raw))
            /\ Len(ret.value.task_output) = Len(raw)
            /\ \A i \in 1..Len(raw) :
                  ret.value.task_output[i] =
                      [op |-> IF args.multi_class THEN "sigmoid" ELSE "softmax",
                       row |-> raw[i]]
            /\ task_loss.op = IF args.multi_class THEN "sigmoid_cross_entropy"
                              ELSE "softmax_cross_entropy"

\* build_model returned with multi_class=True on a batch of two or more.
C16_Witness ==
    /\ fn = "build_model" /\ pc = "done" /\ args.multi_class
    /\ Len(ret.value.task_output) >= 2
    /\ ret.value.task_output[1].op = "sigmoid"
    /\ ret.value.task_loss.op = "sigmoid_cross_entropy"

\* j is the class predicted from a row of raw outputs: the first largest.
IsPredicted(j, row) ==
    /\ j \in 1..Len(row)
    /\ \A k \in 1..Len(row) : row[k] <= row[j]
    /\ \A k \in 1..(j - 1) : row[k] < row[j]

\* A scalar is the weight as it is.
AppliedAsIs(task_loss, class_weights) ==
    task_loss.weights.rank = 0 /\ task_loss.weights.value = Number(class_weights)

\* The weight of each example is one number, that of its predicted class.

WeightedByPrediction(task_loss, class_weights) ==
    /\ task_loss.weights.rank = 1
    /\ Len(task_loss.weights.value) = Len(task_loss.logits)
    /\ \A i \in 1..Len(task_loss.logits) :
          \E j \in 1..Len(class_weights.value) :
              /\ IsPredicted(j, task_loss.logits[i])
              /\ task_loss.weights.value[i] = class_weights.value[j]

\* C17 as claimed: with a per-class vector of class weights the task loss
\* weighs each example by the weight of the class it was predicted to be,
\* whatever multi_class is; with a scalar the weight is the scalar.
C17_AsClaimed ==
    ModelDone =>
        IF args.class_weights.type = "list"
        THEN WeightedByPrediction(ModelLocals.task_loss, args.class_weights)
        ELSE AppliedAsIs(ModelLocals.task_loss, args.class_weights)

\* C17: with a per-class vector and multi_class=False the task loss weighs
\* each example by the weight of its predicted class (the first largest raw
\* output), not of its label; with a per-class vector and multi_class=True
\* every example gets the whole vector, one weight for each class's output;
\* with a scalar the weight is the scalar, not gathered.
C17_GatheredUnlessMultiClass ==
    ModelDone =>
        LET task_loss == ModelLocals.task_loss
        IN  IF args.class_weights.type # "list"
            THEN AppliedAsIs(task_loss, args.class_weights)
            ELSE IF args.multi_class
            THEN /\ task_loss.weights.rank = 2
                 /\ Len(task_loss.weights.value) = Len(task_loss.labels)
                 /\ \A i \in 1..Len(task_loss.labels) :
                       task_loss.weights.value[i] = args.class_weights.value
            ELSE WeightedByPrediction(task_loss, args.class_weights)

\* build_model returned with per-class weights and multi_class=False on a
\* batch whose first example is predicted to be another class than its label
\* says, and whose second is predicted to be another class than the first.
C17_Witness ==
    /\ fn = "build_model" /\ pc = "done"
    /\ args.class_weights.type = "list" /\ ~args.multi_class
    /\ Len(ret.value.task_loss.logits) >= 2
    /\ ret.value.task_loss.logits[1] = <<0, 1>> /\ ret.value.task_loss.labels[1] = <<1, 0>>
    /\ ret.value.task_loss.logits[2] = <<1, 1>>
    /\ ret.value.task_loss.weights.rank = 1
    /\ ret.value.task_loss.weights.value[1] = 3
    /\ ret.value.task_loss.weights.value[2] = 2

RnnDone == fn = "build_rnn" /\ pc = "done"

\* The cells that are run: those the returned outputs were computed with.
CellsRun == {ret.value.outputs[i].cell : i \in 1..Len(ret.value.outputs)}

IsDropoutWrapped(c, keep_prob) ==
    \E i \in 1..Len(c.wrappers) :
        c.wrappers[i] = [wrapper |-> "DropoutWrapper", output_keep_prob |-> keep_prob]

\* C25 as claimed: in build_rnn with dropout=True every recurrent cell that is
\* run is wrapped with output dropout at keep_prob: the forward and the
\* backward cell in bidirectional mode, the single cell otherwise.
C25_AsClaimed ==
    (RnnDone /\ args.dropout) =>
        /\ Cardinality(CellsRun) = (IF args.bidirectional THEN 2 ELSE 1)
        /\ \A c \in CellsRun : IsDropoutWrapped(c, args.keep_prob)

\* What the code does: the first cell is wrapped, the backward cell of the
\* bidirectional mode is made afterwards and runs without any wrapper.
C25_BackwardCellBare ==
    (RnnDone /\ args.dropout) =>
        /\ IsDropoutWrapped(ret.value.outputs[1].cell, args.keep_prob)
        /\ args.bidirectional =>
              /\ Len(ret.value.outputs) = 2
              /\ ret.value.outputs[2].direction = "backward"
              /\ ret.value.outputs[2].cell.wrappers = <<>>
        /\ ~args.bidirectional => Len(ret.value.outputs) = 1

(***************************************************************************)
(* _get_input_fn and IteratorInitializerHook.  The state is the pair the   *)
(* call returned: loc.iter_init_func is the hook's attribute, loc.graph    *)
(* the iterators that the calls of input_fn have built, loc.sessions what  *)
(* each after_create_session did.                                          *)
(***************************************************************************)
MaxInputFnCalls == 2   \* calls of input_fn
MaxSessions == 2       \* calls of after_create_session

\* self.iter_init_func = None
Unset == [callable |-> FALSE, iterator |-> 0, feed_dict |-> <<>>]

\* lambda sess: sess.run(iterator.initializer, feed_dict={...})
InitFunc(iterator, features, labels) ==
    [callable |-> TRUE, iterator |-> iterator,
     feed_dict |-> <<[placeholder |-> <<"features", iterator>>, value |-> features],
                     [placeholder |-> <<"labels", iterator>>, value |-> labels]>>]

\* The dataset behind an iterator.
Dataset(evaluation, batch_size) ==
    IF evaluation
    THEN [repeat |-> FALSE, shuffle_seed |-> 0, batch |-> batch_size]
    ELSE [repeat |-> TRUE, shuffle_seed |-> None, batch |-> batch_size]

\* iter_init_hook.iter_init_func = lambda ...
AssignOnce(old, new) == IF old.callable THEN old ELSE new
Assign(old, new) == new

HookArgs ==
    [features : {<<1, 2>>, <<3, 4>>}, labels : {<<0, 1>>, <<1, 0>>},
     batch_size : {1, 2}, evaluation : BOOLEAN]

\* After _get_input_fn returned (input_fn, iter_init_hook).
InitHook ==
    /\ fn = "_get_input_fn"
    /\ args \in HookArgs
    /\ pc = "returned"
    /\ loc = [iter_init_func |-> Unset, graph |-> <<>>, sessions |-> <<>>]
    /\ ret = NoRet
    /\ call = 1
    /\ entropy = 0
    /\ first = NoRet

\* input_fn(): lines 31-49.
InputFn ==
    /\ fn = "_get_input_fn" /\ pc = "returned"
    /\ Len(loc.graph) < MaxInputFnCalls
    /\ LET iterator == Len(loc.graph) + 1
       IN  /\ loc' = [loc EXCEPT
                  !.graph = Append(@, Dataset(args.evaluation, args.batch_size)),
                  !.iter_init_func =
                      Assign(@, InitFunc(iterator, args.features, args.labels))]
           /\ ret' = Returned(<<[next |-> "data", iterator |-> iterator],
                                [next |-> "label", iterator |-> iterator]>>)
    /\ UNCHANGED <<fn, args, pc, call, entropy, first>>

\* after_create_session(sess, coord): line 25.  Calling None raises TypeError.
\* A session notes how many calls of input_fn came before it.
AfterCreateSession ==
    /\ fn = "_get_input_fn" /\ pc = "returned"
    /\ Len(loc.sessions) < MaxSessions
    /\ LET f == loc.iter_init_func
       IN  IF ~f.callable
           THEN /\ loc' = [loc EXCEPT !.sessions =
                               Append(@, [raised |-> TRUE, calls |-> Len(loc.graph),
                                          initialized |-> 0, feed_dict |-> <<>>])]
                /\ ret' = Raised([type |-> "TypeError", file |-> 0])
           ELSE /\ loc' = [loc EXCEPT !.sessions =
                               Append(@, [raised |-> FALSE, calls |-> Len(loc.graph),
                                          initialized |-> f.iterator,
                                          feed_dict |-> f.feed_dict])]
                /\ ret' = Returned(None)
    /\ UNCHANGED <<fn, args, pc, call, entropy, first>>

NextHook ==
    \/ InputFn
    \/ AfterCreateSession

SpecHook == InitHook /\ [][NextHook]_vars

(***************************************************************************)
(* Properties of the hook, checked under SpecHook.                         *)
(***************************************************************************)
\* C19: the hook's iter_init_func is unset exactly as long as input_fn has not
\* been invoked; an after_create_session succeeded exactly when input_fn was
\* invoked before it, and then it ran the initializer of the iterator of the
\* latest such call, feeding the features and labels given to _get_input_fn
\* to that call's placeholders.
C19_Handshake ==
    fn = "_get_input_fn" =>
        /\ ~loc.iter_init_func.callable <=> Len(loc.graph) = 0
        /\ \A k \in 1..Len(loc.sessions) :
              LET sess == loc.sessions[k]
              IN  /\ ~sess.raised <=> sess.calls > 0
                  /\ ~sess.raised =>
                        /\ sess.initialized = sess.calls
                        /\ Len(sess.feed_dict) = 2
                        /\ sess.feed_dict[1] =
                              [placeholder |-> <<"features", sess.calls>>,
                               value |-> args.features]
                        /\ sess.feed_dict[2] =
                              [placeholder |-> <<"labels", sess.calls>>,
                               value |-> args.labels]

\* A session created before any call of input_fn failed, and one created after
\* two calls initialised the second iterator.
C19_Witness ==
    /\ fn = "_get_input_fn"
    /\ Len(loc.sessions) = 2 /\ Len(loc.graph) = 2
    /\ loc.sessions[1].raised /\ loc.sessions[1].calls = 0
    /\ ~loc.sessions[2].raised /\ loc.sessions[2].initialized = 2

(***************************************************************************)
(* The two MIMIC-III loaders.  An admission is [age, pf]: its age in       *)
(* quarters of a day (adm_features[:, 0] is the age in days, and a year is *)
(* 365.25 days, 1461 quarters) and, for the AHRF loader, the PaO2/FiO2     *)
(* ratios at the times where both were measured.  Admission i is row i of  *)
(* x, y and adm_features, counted from 0; an example is the admission it   *)
(* is the series of.  The index sets of the chosen fold are inputs.        *)
(***************************************************************************)
MaxAdmissions == 2   \* rows of the data file

QuartersPerYear == 1461   \* 4 * 365.25
PfLimit == 300            \* np.nanmin(pao4[i]/fio2[i]) < 300

\* Ages just below 45 years and of exactly 45, 65 and 85 years.
Ages == {45 * QuartersPerYear - 1, 45 * QuartersPerYear, 65 * QuartersPerYear,
         85 * QuartersPerYear}

\* No common measurement, a lowest ratio of 299, a lowest ratio of 300.
PfRatios == {<<>>, <<299>>, <<300>>}

\* (age >= lo) & (age < hi), age = days / 365.25
AgeIn(adm, lo, hi) ==
    adm.age * 100 >= lo * 36525 * 4 /\ adm.age * 100 < hi * 36525 * 4

\* Lines 338-349.
HasLt300(adm) ==
    LET has_measurement == Len(adm.pf) > 0
    IN  has_measurement /\ \E k \in 1..Len(adm.pf) : adm.pf[k] < PfLimit

\* np.where(mask)[0] over the admissions 0..n-1, as a set of indices.
Where(adms, Mask(_)) == {i \in 0..(Len(adms) - 1) : Mask(adms[i + 1])}

\* np.intersect1d(ar1, ar2): the sorted common values.
Intersect1dFirst(ar1, ar2, n) == SelectSeq([k \in 1..n |-> k - 1], LAMBDA i : i \in ar1)
Intersect1d(ar1, ar2, n) ==
    SelectSeq([k \in 1..n |-> k - 1], LAMBDA i : i \in ar1 /\ i \in ar2)

\* x[indices], y[indices]
RowsAt(arr, indices) == [k \in 1..Len(indices) |-> arr[indices[k] + 1]]

\* Lines 416-429 and 525-538.
SplitByFold(x, y, domain_a, domain_b, training_indices, testing_indices) ==
    LET n == Len(x)
    IN  [train_data_a |-> RowsAt(x, Intersect1d(domain_a, training_indices, n)),
         train_labels_a |-> RowsAt(y, Intersect1d(domain_a, training_indices, n)),
         test_data_a |-> RowsAt(x, Intersect1d(domain_a, testing_indices, n)),
         test_labels_a |-> RowsAt(y, Intersect1d(domain_a, testing_indices, n)),
         train_data_b |-> RowsAt(x, Intersect1d(domain_b, training_indices, n)),
         train_labels_b |-> RowsAt(y, Intersect1d(domain_b, training_indices, n)),
         test_data_b |-> RowsAt(x, Intersect1d(domain_b, testing_indices, n)),
         test_labels_b |-> RowsAt(y, Intersect1d(domain_b, testing_indices, n))]

ClinicalLoaders == {"load_data_mimiciii_ahrf", "load_data_mimiciii_icd9"}

ClinicalArgs(f) ==
    UNION {
        [adms : [1..n -> [age : Ages,
                          pf : IF f = "load_data_mimiciii_ahrf" THEN PfRatios ELSE {<<>>}]],
         training_indices : SUBSET (0..(n - 1)),
         testing_indices : SUBSET (0..(n - 1))] :
        n \in 0..MaxAdmissions }

InitClinical ==
    /\ fn \in ClinicalLoaders
    /\ args \in ClinicalArgs(fn)
    /\ pc = "groups"
    /\ loc = <<>>
    /\ ret = NoRet
    /\ call = 1
    /\ entropy = 0
    /\ first = NoRet

\* Lines 265-401: the series, the labels and the two age groups of the
\* admissions with a PaO2/FiO2 ratio below 300.
AhrfGroups ==
    /\ fn = "load_data_mimiciii_ahrf" /\ pc = "groups"
    /\ pc' = "split"
    /\ loc' = [x |-> [k \in 1..Len(args.adms) |-> [adm |-> k - 1, series |-> "ep_tdata"]],
               y |-> [k \in 1..Len(args.adms) |-> [adm |-> k - 1, label |-> "adm_labels_all"]],
               domain_a |-> Where(args.adms, LAMBDA a : AgeIn(a, 65, 85) /\ HasLt300(a)),
               domain_b |-> Where(args.adms, LAMBDA a : AgeIn(a, 45, 65) /\ HasLt300(a))]
    /\ UNCHANGED <<fn, args, ret, call, entropy, first>>

\* Lines 403-429.
AhrfSplit ==
    /\ fn = "load_data_mimiciii_ahrf" /\ pc = "split"
    /\ pc' = "done"
    /\ ret' = Returned(SplitByFold(loc.x, loc.y, loc.domain_a, loc.domain_b,
                                   args.training_indices, args.testing_indices))
    /\ UNCHANGED <<fn, args, loc, call, entropy, first>>

\* Lines 447-510: the series averaged over every two hours of the first 24,
\* the labels and the two age groups.
Icd9Groups ==
    /\ fn = "load_data_mimiciii_icd9" /\ pc = "groups"
    /\ pc' = "split"
    /\ loc' = [x |-> [k \in 1..Len(args.adms) |->
                         [adm |-> k - 1, series |-> "ep_tdata[:, :24] mean of 2"]],
               y |-> [k \in 1..Len(args.adms) |-> [adm |-> k - 1, label |-> "y_icd9"]],
               domain_a |-> Where(args.adms, LAMBDA a : AgeIn(a, 65, 85)),
               domain_b |-> Where(args.adms, LAMBDA a : AgeIn(a, 45, 65))]
    /\ UNCHANGED <<fn, args, ret, call, entropy, first>>

\* Lines 512-538.
Icd9Split ==
    /\ fn = "load_data_mimiciii_icd9" /\ pc = "split"
    /\ pc' = "done"
    /\ ret' = Returned(SplitByFold(loc.x, loc.y, loc.domain_a, loc.domain_b,
                                   args.training_indices, args.testing_indices))
    /\ UNCHANGED <<fn, args, loc, call, entropy, first>>

NextClinical ==
    \/ AhrfGroups
    \/ AhrfSplit
    \/ Icd9Groups
    \/ Icd9Split

SpecClinical == InitClinical /\ [][NextClinical]_vars

(***************************************************************************)
(* Properties of the MIMIC-III loaders, checked under SpecClinical.        *)
(***************************************************************************)
ClinicalDone == fn \in ClinicalLoaders /\ pc = "done"

\* lo <= age < hi years, for an age in quarters of a day.
InBracket(adm, lo, hi) ==
    lo * QuartersPerYear <= adm.age /\ adm.age < hi * QuartersPerYear

\* The admissions a slice holds, by the field of the example's identity.
AdmsOf(slice) == {slice[k].adm : k \in 1..Len(slice)}

\* data and labels are the rows of exactly the admissions of S, each once, at
\* the same positions.
SliceIs(data, labels, S) ==
    /\ Len(data) = Cardinality(S) /\ Len(labels) = Cardinality(S)
    /\ AdmsOf(data) = S
    /\ \A k \in 1..Len(data) : labels[k].adm = data[k].adm

\* The four slices of each domain are those of the admissions of InA resp. InB
\* that the fold's training resp. testing index set holds.
SlicesAre(InA(_), InB(_)) ==
    LET v == ret.value
        A == {i \in 0..(Len(args.adms) - 1) : InA(args.adms[i + 1])}
        B == {i \in 0..(Len(args.adms) - 1) : InB(args.adms[i + 1])}
    IN  /\ SliceIs(v.train_data_a, v.train_labels_a, A \cap args.training_indices)
        /\ SliceIs(v.test_data_a, v.test_labels_a, A \cap args.testing_indices)
        /\ SliceIs(v.train_data_b, v.train_labels_b, B \cap args.training_indices)
        /\ SliceIs(v.test_data_b, v.test_labels_b, B \cap args.testing_indices)

DomainsDisjoint ==
    (AdmsOf(ret.value.train_data_a) \cup AdmsOf(ret.value.test_data_a))
        \cap (AdmsOf(ret.value.train_data_b) \cup AdmsOf(ret.value.test_data_b)) = {}

\* The lowest PaO2/FiO2 ratio of the admission is below 300.
RatioBelowLimit(adm) == \E k \in 1..Len(adm.pf) : adm.pf[k] < PfLimit

====
